---------------------------- MODULE Spec2Model ----------------------------
(***************************************************************************)
(* Model of turning_sheet.py: the per-pass time computation, the rough /   *)
(* finish session of main(), the per-part cost breakdown and the CSV log.  *)
(*                                                                         *)
(* Numbers.  The program computes in floating point.  The model computes   *)
(* in exact arithmetic over the values  r + p*pi  (r, p rational, a        *)
(* rational being a pair <<numerator, denominator>> in lowest terms) plus  *)
(* the three IEEE specials NaN, +inf and -inf, which behave as in Python.  *)
(* Rounding and overflow of finite floats are not modelled.                *)
(***************************************************************************)
EXTENDS Integers, Sequences, FiniteSets, TLC

---------------------------------------------------------------------------
(* Rationals *)

Abs(i) == IF i < 0 THEN -i ELSE i

RECURSIVE GCD(_, _)
GCD(a, b) == IF b = 0 THEN a ELSE GCD(b, a % b)

RNorm(n, d) ==
    LET s == IF d < 0 THEN -1 ELSE 1
        g == GCD(Abs(n), Abs(d))
    IN  << (s * n) \div g, (s * d) \div g >>

R(i) == << i, 1 >>
Zero == R(0)
One == R(1)

RNeg(a) == << -a[1], a[2] >>
RAdd(a, b) ==
    LET g == GCD(a[2], b[2])
    IN  RNorm(a[1] * (b[2] \div g) + b[1] * (a[2] \div g), (a[2] \div g) * b[2])
RSub(a, b) == RAdd(a, RNeg(b))
RMul(a, b) ==
    LET g1 == GCD(Abs(a[1]), b[2])
        g2 == GCD(Abs(b[1]), a[2])
    IN  RNorm((a[1] \div g1) * (b[1] \div g2), (a[2] \div g2) * (b[2] \div g1))
RInv(a) == IF a[1] > 0 THEN << a[2], a[1] >> ELSE << -a[2], -a[1] >>
RDiv(a, b) == RMul(a, RInv(b))
RSgn(a) == IF a[1] > 0 THEN 1 ELSE IF a[1] < 0 THEN -1 ELSE 0
RFloor(a) == a[1] \div a[2]
RLe(a, b) ==
    LET fa == RFloor(a)
        fb == RFloor(b)
    IN  IF fa # fb THEN fa < fb
        ELSE (a[1] - fa * a[2]) * b[2] <= (b[1] - fb * b[2]) * a[2]
RLt(a, b) == ~RLe(b, a)
RMax(a, b) == IF RLe(b, a) THEN a ELSE b

RECURSIVE RPow(_, _)
RPow(a, k) == IF k = 0 THEN One ELSE RMul(a, RPow(a, k - 1))

---------------------------------------------------------------------------
(* Float values: r + p*pi, NaN, +inf, -inf *)

Num(r, p) == [k |-> "num", r |-> r, p |-> p]
NaN  == [k |-> "nan",  r |-> Zero, p |-> Zero]
PInf == [k |-> "inf",  r |-> Zero, p |-> Zero]
NInf == [k |-> "ninf", r |-> Zero, p |-> Zero]
F(q) == Num(q, Zero)
PiTimes(q) == Num(Zero, q)
IsNum(x) == x.k = "num"
IsNaN(x) == x.k = "nan"

\* 355/113 decides the sign of r + p*pi for every r, p the model computes:
\* no rational with a denominator below 16604 lies between pi and 355/113.
PiApprox == << 355, 113 >>

VSgn(x) ==
    IF x.k = "inf" THEN 1
    ELSE IF x.k = "ninf" THEN -1
    ELSE IF x.p = Zero THEN RSgn(x.r)
    ELSE IF x.r = Zero THEN RSgn(x.p)
    ELSE RSgn(RAdd(x.r, RMul(x.p, PiApprox)))

VNeg(x) ==
    IF x.k = "num" THEN Num(RNeg(x.r), RNeg(x.p))
    ELSE IF x.k = "inf" THEN NInf
    ELSE IF x.k = "ninf" THEN PInf
    ELSE NaN

VAdd(x, y) ==
    IF x.k = "nan" \/ y.k = "nan" THEN NaN
    ELSE IF x.k = "num" /\ y.k = "num" THEN Num(RAdd(x.r, y.r), RAdd(x.p, y.p))
    ELSE IF x.k = "num" THEN y
    ELSE IF y.k = "num" THEN x
    ELSE IF x.k = y.k THEN x
    ELSE NaN

VSub(x, y) == VAdd(x, VNeg(y))

\* q * x for a finite q
VScale(q, x) ==
    IF x.k = "nan" THEN NaN
    ELSE IF x.k = "num" THEN Num(RMul(q, x.r), RMul(q, x.p))
    ELSE IF RSgn(q) = 0 THEN NaN
    ELSE IF RSgn(q) > 0 THEN x
    ELSE VNeg(x)

\* x * y where y is +inf or a finite rational held as a value
VMulExt(x, y) ==
    IF y.k = "num" THEN VScale(y.r, x)
    ELSE IF x.k = "nan" \/ VSgn(x) = 0 THEN NaN
    ELSE IF VSgn(x) > 0 THEN y
    ELSE VNeg(y)

\* x <= y as Python compares floats: False as soon as one side is NaN
VLe(x, y) ==
    IF x.k = "nan" \/ y.k = "nan" THEN FALSE
    ELSE IF x.k = "ninf" \/ y.k = "inf" THEN TRUE
    ELSE IF x.k = "inf" \/ y.k = "ninf" THEN FALSE
    ELSE VSgn(VSub(y, x)) >= 0

\* x / y for finite x and y that are both rational or both multiples of pi
VRatio(x, y) ==
    IF y.p = Zero THEN RDiv(x.r, y.r) ELSE RDiv(x.p, y.p)


---------------------------------------------------------------------------
(* Catalogs *)

PRESETS ==
    [m \in {"carbon steel", "alloy steel", "stainless steel (304)", "tool steel",
            "cast iron", "aluminum alloys (6061)", "brass", "nickel alloys",
            "magnesium alloys", "zinc alloys", "titanium alloys"} |->
        CASE m = "carbon steel"           -> [density |-> <<283, 1000>>, ps |-> <<6, 5>>]
          [] m = "alloy steel"            -> [density |-> <<31, 100>>,   ps |-> <<27, 20>>]
          [] m = "stainless steel (304)"  -> [density |-> <<283, 1000>>, ps |-> <<9, 5>>]
          [] m = "tool steel"             -> [density |-> <<283, 1000>>, ps |-> <<19, 10>>]
          [] m = "cast iron"              -> [density |-> <<13, 50>>,    ps |-> <<19, 20>>]
          [] m = "aluminum alloys (6061)" -> [density |-> <<1, 10>>,     ps |-> <<7, 20>>]
          [] m = "brass"                  -> [density |-> <<31, 100>>,   ps |-> <<11, 20>>]
          [] m = "nickel alloys"          -> [density |-> <<3, 10>>,     ps |-> <<11, 5>>]
          [] m = "magnesium alloys"       -> [density |-> <<33, 500>>,   ps |-> <<1, 4>>]
          [] m = "zinc alloys"            -> [density |-> <<23, 100>>,   ps |-> <<1, 2>>]
          [] m = "titanium alloys"        -> [density |-> <<163, 1000>>, ps |-> <<12, 5>>]]

TOOLING_CHOICES == << <<"H", "HSS">>, <<"C", "Carbide">>, <<"D", "Ceramic/CBN/PCD">> >>

OPS == << "turn/thread", "bore/drill/tap/ream", "face/thread", "milling", "cutoff", "other" >>
OpSet == { OPS[i] : i \in 1..Len(OPS) }

---------------------------------------------------------------------------
(* Pure functions *)

\* Faulty variant: the upper bound is not applied
clamp_db_rough_noupper(db_r, db_final, da_start) ==
    IF RLt(db_r, db_final) THEN db_final ELSE db_r

clamp_db_rough(db_r, db_final, da_start) ==
    IF RLt(db_r, db_final) THEN db_final
    ELSE IF RLt(da_start, db_r) THEN da_start
    ELSE db_r

Eps == << 1, 1000000000 >>
Sq(a) == RMul(a, a)

op_area_volume(operation, lw, da_in, db_used) ==
    IF operation = "turn/thread" THEN
        [Am |-> PiTimes(RMul(lw, db_used)),
         Vm |-> PiTimes(RMul(<<1, 4>>, RMul(lw, RSub(Sq(da_in), Sq(db_used)))))]
    ELSE IF operation = "bore/drill/tap/ream" THEN
        [Am |-> PiTimes(RMul(lw, da_in)),
         Vm |-> PiTimes(RMul(<<1, 4>>, RMul(lw, RSub(Sq(db_used), Sq(da_in)))))]
    ELSE IF operation = "face/thread" THEN
        [Am |-> PiTimes(RMul(<<1, 2>>, RMul(da_in, RSub(da_in, db_used)))),
         Vm |-> PiTimes(RMul(<<1, 2>>, RMul(lw, RMul(da_in, RSub(da_in, db_used)))))]
    ELSE IF operation = "milling" THEN
        [Am |-> F(RMul(lw, da_in)),
         Vm |-> F(RMul(lw, RMul(da_in, db_used)))]
    ELSE
        [Am |-> PiTimes(RMul(lw, RMax(db_used, Eps))),
         Vm |-> PiTimes(RMul(<<1, 4>>, RMul(lw, RMax(RSub(Sq(da_in), Sq(db_used)), Zero))))]

\* Faulty variant: the guard tests Pm != 0
tmp_s_of_nonzero(ps, Vm, Pm) ==
    IF RSgn(Pm) # 0 THEN VScale(RDiv(RMul(R(60), ps), Pm), Vm) ELSE NaN

\* line 121: 60.0 * ps * Vm / Pm if Pm > 0 else nan
tmp_s_of(ps, Vm, Pm) ==
    IF RSgn(Pm) > 0 THEN VScale(RDiv(RMul(R(60), ps), Pm), Vm) ELSE NaN

\* line 122: 60.0 * (Am / vf); a zero vf raises ZeroDivisionError
tmc_s_of(Am, vf) == VScale(RDiv(R(60), vf), Am)

\* line 124: not math.isnan(tmp_s) and tmp_s <= tmc_s
safe_branch(tmp, tmc) == ~IsNaN(tmp) /\ VLe(tmp, tmc)

\* line 127: tmc_s / tmp_s if (tmp_s and tmp_s > 0) else inf
ratio_of(tmp, tmc) ==
    IF ~IsNaN(tmp) /\ VSgn(tmp) > 0 THEN F(VRatio(tmc, tmp)) ELSE PInf

\* ratio ** (1.0 / n_tool), for an n_tool whose reciprocal is a whole number
pow_inv_n(ratio, n_tool) ==
    IF ratio.k = "inf" THEN PInf ELSE F(RPow(ratio.r, RInv(n_tool)[1]))

\* Faulty variant: the wear correction loses its "1.0 +"
tm_s_of_noone(tmp, tmc, n_tool) ==
    IF safe_branch(tmp, tmc) THEN
        IF n_tool = One
        THEN [raised |-> TRUE, tm_s |-> NaN, branch |-> "safe", ratio |-> NaN]
        ELSE [raised |-> FALSE, tm_s |-> VScale(RInv(RSub(One, n_tool)), tmc),
              branch |-> "safe", ratio |-> NaN]
    ELSE
        IF n_tool = One \/ n_tool = Zero
        THEN [raised |-> TRUE, tm_s |-> NaN, branch |-> "wear", ratio |-> ratio_of(tmp, tmc)]
        ELSE LET ratio == ratio_of(tmp, tmc)
                 c == RDiv(n_tool, RSub(One, n_tool))
                 factor == VScale(c, pow_inv_n(ratio, n_tool))
             IN  [raised |-> FALSE, tm_s |-> VMulExt(tmp, factor),
                  branch |-> "wear", ratio |-> ratio]

\* lines 124-128: [raised, tm_s, branch, ratio]
tm_s_of(tmp, tmc, n_tool) ==
    IF safe_branch(tmp, tmc) THEN
        IF n_tool = One
        THEN [raised |-> TRUE, tm_s |-> NaN, branch |-> "safe", ratio |-> NaN]
        ELSE [raised |-> FALSE, tm_s |-> VScale(RInv(RSub(One, n_tool)), tmc),
              branch |-> "safe", ratio |-> NaN]
    ELSE
        IF n_tool = One \/ n_tool = Zero
        THEN [raised |-> TRUE, tm_s |-> NaN, branch |-> "wear", ratio |-> ratio_of(tmp, tmc)]
        ELSE LET ratio == ratio_of(tmp, tmc)
                 c == RDiv(n_tool, RSub(One, n_tool))
                 factor == VAdd(F(One), VScale(c, pow_inv_n(ratio, n_tool)))
             IN  [raised |-> FALSE, tm_s |-> VMulExt(tmp, factor),
                  branch |-> "wear", ratio |-> ratio]

TravelOps == {"turn/thread", "face/thread", "bore/drill/tap/ream", "cutoff"}
TravelSeconds == << 27, 5 >>

\* Faulty variant: cutoff is left out of the travel list
tm_prime_s_of_nocutoff(operation, tm) ==
    IF operation \in {"turn/thread", "face/thread", "bore/drill/tap/ream"}
    THEN VAdd(tm, F(TravelSeconds)) ELSE tm

\* line 130
tm_prime_s_of(operation, tm) ==
    IF operation \in TravelOps THEN VAdd(tm, F(TravelSeconds)) ELSE tm

\* lines 119-131.  raised = TRUE stands for the ZeroDivisionError that leaves
\* the call without a result.
compute_times(operation, Am, Vm, ps, Pm, n_tool, vf) ==
    IF vf = Zero THEN
        [raised |-> TRUE, tmc_s |-> NaN, tmp_s |-> NaN, tm_s |-> NaN, tm_prime_s |-> NaN,
         branch |-> "none", ratio |-> NaN]
    ELSE
        LET tmp == tmp_s_of(ps, Vm, Pm)
            tmc == tmc_s_of(Am, vf)
            w == tm_s_of(tmp, tmc, n_tool)
        IN  IF w.raised THEN
                [raised |-> TRUE, tmc_s |-> NaN, tmp_s |-> NaN, tm_s |-> NaN,
                 tm_prime_s |-> NaN, branch |-> w.branch, ratio |-> w.ratio]
            ELSE
                [raised |-> FALSE, tmc_s |-> tmc, tmp_s |-> tmp, tm_s |-> w.tm_s,
                 tm_prime_s |-> tm_prime_s_of(operation, w.tm_s),
                 branch |-> w.branch, ratio |-> w.ratio]

HEADERS ==
    << "Tool Type (HCD)", "Setup Time Per batch (hr)", "Load and Unload Time (s)",
       "Tool Positioning Time (s)", "Dimension (in.) lw", "Dimension (in.) da",
       "Dimension (in.) db", "Volume (in.^3) vm",
       "Specific Cutting Energy (hp min/in.^3) ps", "Available Power (hp) Pm",
       "Machining Time Max Power (s) tmp", "Rate of Surface Generation (in.^2/min) vf",
       "Milling Feed Speed (in./min) vt", "Area (in.^2) Am",
       "Machining Time Recommended conditions (s) tmc",
       "Time Corrected for Tool Wear (s) tm",
       "Time Corrected for Extra Tool Travel (s) t'm",
       "Pass", "Operation", "Material", "Notes" >>

\* The "Notes" text (the formatted stock weight) is not modelled.
make_row(tool_code, setup_hr_, load_s_, toolpos_s_, lw_in, da_in, db_used_in, vm_in3, ps, Pm_, tmp, vf_in2min, Am_in2, tmc, tm, tm_prime, pass_name, operation, material) ==
    [tool_code |-> tool_code, setup_hr |-> setup_hr_, load_s |-> load_s_,
     toolpos_s |-> toolpos_s_, lw |-> lw_in, da |-> da_in, db |-> db_used_in,
     vm |-> vm_in3, ps |-> ps, Pm |-> Pm_, tmp_s |-> tmp, vf |-> vf_in2min, vt |-> "",
     Am |-> Am_in2, tmc_s |-> tmc, tm_s |-> tm, tm_prime_s |-> tm_prime,
     pass_name |-> pass_name, operation |-> operation, material |-> material]

\* What the model keeps of a line of turning_sheet.csv: its "Pass" column,
\* which reads "Pass" in the header line and "Rough" / "Finish" in a data line.
header_line == "Pass"
data_line(row) == row.pass_name

\* Faulty variant: the header is written on every run
need_header_of_always(exists) == TRUE

\* lines 273-278
need_header_of(exists) == ~exists

\* lines 280-285: the lines one invocation appends
written_lines(need_header_, rows_) ==
    (IF need_header_ THEN << header_line >> ELSE << >>)
        \o [i \in 1..Len(rows_) |-> data_line(rows_[i])]

\* None, for a rational and for a float value
None == << 0, 0 >>
Unset == [k |-> "unset", r |-> Zero, p |-> Zero]

\* Faulty variant: the finish pass always starts from da0
finish_da_unchained(rough_, db_rough_, da0_) == da0_

\* line 239
finish_da(rough_, db_rough_, da0_) ==
    IF rough_ /\ db_rough_ # None THEN db_rough_ ELSE da0_

\* lines 184-185
stock_weight(density_, da0_, l_full_) ==
    VScale(density_, PiTimes(RMul(<<1, 4>>, RMul(Sq(da0_), l_full_))))

\* lines 263-269
material_cost(cost_per_lb_, Mstock) == VScale(cost_per_lb_, Mstock)
setup_cost(hourly_rate_, setup_hr_, num_parts_) ==
    F(RDiv(RMul(hourly_rate_, setup_hr_), num_parts_))
\* Faulty variant: tool positioning is charged for both passes whether run or not
nonprod_seconds_of_both(load_s_, toolpos_s_, rough_, finish_) ==
    RAdd(RAdd(load_s_, toolpos_s_), toolpos_s_)
nonprod_seconds_of(load_s_, toolpos_s_, rough_, finish_) ==
    RAdd(RAdd(load_s_, IF rough_ THEN toolpos_s_ ELSE Zero),
         IF finish_ THEN toolpos_s_ ELSE Zero)
nonprod_cost(hourly_rate_, seconds) == F(RMul(hourly_rate_, RDiv(seconds, R(3600))))
total_machining_seconds_of(tprime_r_, tprime_f_, rough_, finish_) ==
    VAdd(IF rough_ THEN tprime_r_ ELSE F(Zero), IF finish_ THEN tprime_f_ ELSE F(Zero))
machining_cost(hourly_rate_, seconds) == VScale(hourly_rate_, VScale(<<1, 3600>>, seconds))
\* Faulty variant: the non-productive cost is left out of the total
total_cost_nononprod(material, setup, nonprod, machining) ==
    VAdd(VAdd(material, setup), machining)
total_cost(material, setup, nonprod, machining) ==
    VAdd(VAdd(VAdd(material, setup), nonprod), machining)

---------------------------------------------------------------------------
(* Bounds and input sets *)

MaxDim == 2
MaxInvocations == 2
MaxMag == 2

Dims == { R(i) : i \in 1..MaxDim }
Materials == {"brass", "custom"}
MillWidths == { R(1), R(2) }
MillDepths == { R(1) }
VfInputs == { R(8) }
PartCounts == { R(1), R(4) }
\* the prompt's default (dbf), a size below every final diameter, one between
\* the two largest diameters and one above every start diameter
DbRoughInputs(default) ==
    { default, << 1, 2 >>, << 2 * MaxDim - 1, 2 >>, << 2 * MaxDim + 1, 2 >> }
LFullInputs == { R(4) }
LwInputs == { R(1) }
ToolPicks == { 2 }
PmInputs == { R(5) }
NInputs == { <<1, 2>> }
PsInputs == { }
CostPerLbInputs == { R(2) }
HourlyRateInputs == { R(60) }
CustomDensity == << 283, 1000 >>
CustomPs == One
DefaultSetupHr == << 1, 4 >>
DefaultLoadS == R(45)
DefaultToolposS == R(10)

---------------------------------------------------------------------------
(* State *)

VARIABLES
    pc, inv, file_exists, csv, passes_run,
    l_full, lw, da0, dbf, mat_choice, density, ps_default, code, Mstock_lb,
    Pm, n_tool, setup_hr, load_s, toolpos_s,
    rows, rough, finish, db_rough, ps_shared, tprime_r, tprime_f, db_r_entered,
    cost_per_lb, hourly_rate, num_parts,
    material_cost_per_part, setup_cost_per_part, nonprod_seconds,
    nonprod_cost_per_part, total_machining_seconds, machining_cost_per_part,
    total_cost_per_part, need_header,
    call, ret

fileVars == << file_exists, csv >>
setupVars == << l_full, lw, da0, dbf, mat_choice, density, ps_default, code, Mstock_lb,
                Pm, n_tool, setup_hr, load_s, toolpos_s >>
passVars == << rows, rough, finish, db_rough, ps_shared, tprime_r, tprime_f, db_r_entered >>
costVars == << cost_per_lb, hourly_rate, num_parts,
               material_cost_per_part, setup_cost_per_part, nonprod_seconds,
               nonprod_cost_per_part, total_machining_seconds, machining_cost_per_part,
               total_cost_per_part >>
callVars == << call, ret >>
vars == << pc, inv, passes_run, fileVars, setupVars, passVars, costVars, need_header,
           callVars >>

\* No invocation is running: main()'s locals do not exist.
NoLocals ==
    /\ l_full = None /\ lw = None /\ da0 = None /\ dbf = None
    /\ mat_choice = "" /\ density = None /\ ps_default = None /\ code = ""
    /\ Mstock_lb = Unset /\ Pm = None /\ n_tool = None
    /\ setup_hr = None /\ load_s = None /\ toolpos_s = None
    /\ rows = << >> /\ rough = FALSE /\ finish = FALSE /\ db_rough = None
    /\ ps_shared = None /\ tprime_r = Unset /\ tprime_f = Unset /\ db_r_entered = None
    /\ cost_per_lb = None /\ hourly_rate = None /\ num_parts = None
    /\ material_cost_per_part = Unset /\ setup_cost_per_part = Unset
    /\ nonprod_seconds = None /\ nonprod_cost_per_part = Unset
    /\ total_machining_seconds = Unset /\ machining_cost_per_part = Unset
    /\ total_cost_per_part = Unset /\ need_header = FALSE

NoCall == [operation |-> "", Am |-> Unset, Vm |-> Unset, ps |-> None, Pm |-> None,
           n_tool |-> None, vf |-> None]
NoRet == [raised |-> FALSE, tmc_s |-> Unset, tmp_s |-> Unset, tm_s |-> Unset,
          tm_prime_s |-> Unset, branch |-> "none", ratio |-> Unset]

\* turning_sheet.csv does not exist and no invocation has started.
Init ==
    /\ pc = "idle" /\ inv = 0 /\ passes_run = 0
    /\ file_exists = FALSE /\ csv = << >>
    /\ NoLocals
    /\ call = NoCall /\ ret = NoRet

---------------------------------------------------------------------------
(* One invocation of main() *)

\* lines 162-201: the prompts up to the first pass, and the stock weight
Setup ==
    /\ pc = "idle"
    /\ inv < MaxInvocations
    /\ inv' = inv + 1
    /\ \E lf \in LFullInputs, w \in LwInputs, da \in Dims, db \in Dims,
          m \in Materials, t \in ToolPicks, P \in PmInputs, n \in NInputs :
          LET dens == IF m # "custom" THEN PRESETS[m].density ELSE CustomDensity
              psd == IF m # "custom" THEN PRESETS[m].ps ELSE CustomPs
          IN  /\ l_full' = lf /\ lw' = w /\ da0' = da /\ dbf' = db
              /\ mat_choice' = m /\ density' = dens /\ ps_default' = psd
              /\ code' = TOOLING_CHOICES[t][1]
              /\ Mstock_lb' = stock_weight(dens, da, lf)
              /\ Pm' = P /\ n_tool' = n
              /\ setup_hr' = DefaultSetupHr /\ load_s' = DefaultLoadS
              /\ toolpos_s' = DefaultToolposS
              /\ rows' = << >> /\ rough' = FALSE /\ finish' = FALSE
              /\ db_rough' = None /\ ps_shared' = psd
              /\ tprime_r' = F(Zero) /\ tprime_f' = F(Zero)
    /\ pc' = "rough"
    /\ UNCHANGED << passes_run, fileVars, db_r_entered, costVars, need_header, callVars >>

\* line 204 answered "n"
RoughDecline ==
    /\ pc = "rough"
    /\ pc' = "finish"
    /\ UNCHANGED << inv, passes_run, fileVars, setupVars, passVars, costVars,
                    need_header, callVars >>

\* lines 204-228
RoughPass ==
    /\ pc = "rough"
    /\ \E op_r \in OpSet, ps \in {ps_default} \cup PsInputs, vf_r \in VfInputs :
       \E w \in (IF op_r = "milling" THEN MillWidths ELSE {da0}),
          d \in (IF op_r = "milling" THEN MillDepths ELSE DbRoughInputs(dbf)) :
          LET da_r == w
              db_r == IF op_r = "milling" THEN d ELSE clamp_db_rough(d, dbf, da0)
              av == op_area_volume(op_r, lw, da_r, db_r)
              t == compute_times(op_r, av.Am, av.Vm, ps, Pm, n_tool, vf_r)
          IN  /\ ~t.raised
              /\ rough' = TRUE
              /\ db_r_entered' = d
              /\ ps_shared' = ps
              /\ tprime_r' = t.tm_prime_s
              /\ db_rough' = IF op_r # "milling" THEN db_r ELSE db_rough
              /\ rows' = Append(rows,
                     make_row(code, setup_hr, load_s, toolpos_s, lw, da_r, db_r, av.Vm,
                              ps, Pm, t.tmp_s, vf_r, av.Am, t.tmc_s, t.tm_s,
                              t.tm_prime_s, "Rough", op_r, mat_choice))
    /\ passes_run' = passes_run + 1
    /\ pc' = "finish"
    /\ UNCHANGED << inv, fileVars, setupVars, finish, tprime_f, costVars, need_header,
                    callVars >>

\* line 231 answered "n"
FinishDecline ==
    /\ pc = "finish"
    /\ pc' = "check"
    /\ UNCHANGED << inv, passes_run, fileVars, setupVars, passVars, costVars,
                    need_header, callVars >>

\* lines 231-251
FinishPass ==
    /\ pc = "finish"
    /\ \E op_f \in OpSet, vf_f \in VfInputs :
       \E w \in (IF op_f = "milling" THEN MillWidths ELSE {finish_da(rough, db_rough, da0)}),
          d \in (IF op_f = "milling" THEN MillDepths ELSE {dbf}) :
          LET da_f == w
              db_f == d
              av == op_area_volume(op_f, lw, da_f, db_f)
              t == compute_times(op_f, av.Am, av.Vm, ps_shared, Pm, n_tool, vf_f)
          IN  /\ ~t.raised
              /\ finish' = TRUE
              /\ tprime_f' = t.tm_prime_s
              /\ rows' = Append(rows,
                     make_row(code, setup_hr, load_s, toolpos_s, lw, da_f, db_f, av.Vm,
                              ps_shared, Pm, t.tmp_s, vf_f, av.Am, t.tmc_s, t.tm_s,
                              t.tm_prime_s, "Finish", op_f, mat_choice))
    /\ passes_run' = passes_run + 1
    /\ pc' = "check"
    /\ UNCHANGED << inv, fileVars, setupVars, rough, db_rough, ps_shared, tprime_r,
                    db_r_entered, costVars, need_header, callVars >>

\* Faulty variant: the empty-rows check never fires
no_rows_never(rows_) == FALSE

\* line 253: not rows
no_rows(rows_) == rows_ = << >>

\* lines 253-255
NoPasses ==
    /\ pc = "check"
    /\ no_rows(rows)
    /\ pc' = "exit"
    /\ UNCHANGED << inv, passes_run, fileVars, setupVars, passVars, costVars,
                    need_header, callVars >>

\* lines 257-269
Costs ==
    /\ pc = "check"
    /\ ~no_rows(rows)
    /\ \E c \in CostPerLbInputs, h \in HourlyRateInputs, np \in PartCounts :
          LET mat == material_cost(c, Mstock_lb)
              setup == setup_cost(h, setup_hr, np)
              nps == nonprod_seconds_of(load_s, toolpos_s, rough, finish)
              npc == nonprod_cost(h, nps)
              tms == total_machining_seconds_of(tprime_r, tprime_f, rough, finish)
              mc == machining_cost(h, tms)
          IN  /\ cost_per_lb' = c /\ hourly_rate' = h /\ num_parts' = np
              /\ material_cost_per_part' = mat
              /\ setup_cost_per_part' = setup
              /\ nonprod_seconds' = nps
              /\ nonprod_cost_per_part' = npc
              /\ total_machining_seconds' = tms
              /\ machining_cost_per_part' = mc
              /\ total_cost_per_part' = total_cost(mat, setup, npc, mc)
    /\ pc' = "write"
    /\ UNCHANGED << inv, passes_run, fileVars, setupVars, passVars, need_header, callVars >>

\* lines 271-295
WriteCSV ==
    /\ pc = "write"
    /\ need_header' = need_header_of(file_exists)
    /\ csv' = csv \o written_lines(need_header_of(file_exists), rows)
    /\ file_exists' = TRUE
    /\ pc' = "exit"
    /\ UNCHANGED << inv, passes_run, setupVars, passVars, costVars, callVars >>

\* main() returns and the process ends; the file stays
Exit ==
    /\ pc = "exit"
    /\ pc' = "idle"
    /\ l_full' = None /\ lw' = None /\ da0' = None /\ dbf' = None
    /\ mat_choice' = "" /\ density' = None /\ ps_default' = None /\ code' = ""
    /\ Mstock_lb' = Unset /\ Pm' = None /\ n_tool' = None
    /\ setup_hr' = None /\ load_s' = None /\ toolpos_s' = None
    /\ rows' = << >> /\ rough' = FALSE /\ finish' = FALSE /\ db_rough' = None
    /\ ps_shared' = None /\ tprime_r' = Unset /\ tprime_f' = Unset /\ db_r_entered' = None
    /\ cost_per_lb' = None /\ hourly_rate' = None /\ num_parts' = None
    /\ material_cost_per_part' = Unset /\ setup_cost_per_part' = Unset
    /\ nonprod_seconds' = None /\ nonprod_cost_per_part' = Unset
    /\ total_machining_seconds' = Unset /\ machining_cost_per_part' = Unset
    /\ total_cost_per_part' = Unset /\ need_header' = FALSE
    /\ UNCHANGED << inv, passes_run, fileVars, callVars >>

Next ==
    \/ Setup
    \/ RoughDecline
    \/ RoughPass
    \/ FinishDecline
    \/ FinishPass
    \/ NoPasses
    \/ Costs
    \/ WriteCSV
    \/ Exit

Spec == Init /\ [][Next]_vars

---------------------------------------------------------------------------
(* compute_times called directly, on inputs main() cannot produce as well *)

TimesValues == { R(i) : i \in (0 - 1)..MaxMag }
TimesN == { Zero, <<1, 4>>, <<1, 2>>, One }
TimesVf == { R(1), R(2) }

InitTimes ==
    /\ pc = "idle" /\ inv = 0 /\ passes_run = 0
    /\ file_exists = FALSE /\ csv = << >>
    /\ NoLocals
    /\ call \in [operation : OpSet,
                 Am : { F(q) : q \in TimesValues },
                 Vm : { F(q) : q \in TimesValues },
                 ps : { One },
                 Pm : TimesValues,
                 n_tool : TimesN,
                 vf : TimesVf]
    /\ ret = NoRet

CallComputeTimes ==
    /\ call # NoCall
    /\ ret = NoRet
    /\ ret' = compute_times(call.operation, call.Am, call.Vm, call.ps, call.Pm,
                            call.n_tool, call.vf)
    /\ UNCHANGED << pc, inv, passes_run, fileVars, setupVars, passVars, costVars,
                    need_header, call >>

NextTimes == CallComputeTimes

SpecTimes == InitTimes /\ [][NextTimes]_vars

---------------------------------------------------------------------------
(* Properties *)

DataLines == IF file_exists THEN Len(csv) - 1 ELSE 0
PassesLogged == IF pc \in {"idle", "exit"} THEN passes_run ELSE passes_run - Len(rows)

\* C1: starting without the file, over any sequence of invocations the log is
\* either absent (no pass has been logged) or one header line followed by data
\* lines only, one per pass run by the invocations that have written so far;
\* between invocations that is every pass run.
C1_OneHeaderNRows ==
    /\ ~file_exists => csv = << >> /\ PassesLogged = 0
    /\ file_exists =>
          /\ Len(csv) >= 2
          /\ csv[1] = header_line
          /\ \A i \in 2..Len(csv) : csv[i] \in {"Rough", "Finish"}
    /\ DataLines = PassesLogged

\* C1 witness: two invocations have written, the second found the file there.
C1_Witness ==
    /\ pc = "idle" /\ inv = 2 /\ file_exists
    /\ csv = << "Pass", "Rough", "Finish", "Finish" >>
    /\ passes_run = 3

BothPasses == rough /\ finish /\ Len(rows) = 2

\* C2 as stated: whenever a rough pass was run and the finish pass is not
\* milling, the finish row's da (and the area and volume computed from it) is
\* the rough row's db, whatever the rough operation.
C2_FinishStartsAtRoughDb_Any ==
    (BothPasses /\ rows[2].operation # "milling") =>
        /\ rows[2].da = rows[1].db
        /\ op_area_volume(rows[2].operation, lw, rows[1].db, dbf)
              = [Am |-> rows[2].Am, Vm |-> rows[2].vm]

\* C2 amended: the finish pass starts at the rough pass's clamped db when the
\* rough operation is not milling, and at da0 when the rough operation is milling.
C2_FinishStartsAtRoughDb ==
    (BothPasses /\ rows[2].operation # "milling") =>
        LET start == IF rows[1].operation # "milling" THEN rows[1].db ELSE da0
        IN  /\ rows[2].da = start
            /\ rows[2].db = dbf
            /\ op_area_volume(rows[2].operation, lw, start, dbf)
                  = [Am |-> rows[2].Am, Vm |-> rows[2].vm]

\* C2 witness: a clamped rough diameter other than da0 is handed to the finish pass.
C2_Witness ==
    /\ BothPasses
    /\ rows[1].operation = "turn/thread" /\ rows[2].operation = "face/thread"
    /\ RLt(dbf, da0) /\ rows[1].db # da0
    /\ rows[2].da = rows[1].db

RoughNonMilling == rough /\ Len(rows) >= 1 /\ rows[1].operation # "milling"
ClampLaw(entered, result) ==
    /\ RLe(dbf, result) /\ RLe(result, da0)
    /\ RLt(entered, dbf) => result = dbf
    /\ RLt(da0, entered) => result = da0
    /\ (RLe(dbf, entered) /\ RLe(entered, da0)) => result = entered
    /\ clamp_db_rough(result, dbf, da0) = result

\* C3 as stated: for every da0, dbf and entered db_r the rough db used lies in
\* [dbf, da0], is the nearest bound or the entered value, and is a fixed point
\* of the clamp.
C3_ClampInRange_Any ==
    RoughNonMilling =>
        /\ ClampLaw(db_r_entered, rows[1].db)
        /\ rows[1].da = da0
        /\ op_area_volume(rows[1].operation, lw, da0, rows[1].db)
              = [Am |-> rows[1].Am, Vm |-> rows[1].vm]

\* C3 amended: the same when dbf <= da0; when dbf > da0 (which no step
\* excludes) the result is dbf for an entered value below dbf and da0
\* otherwise, and clamping again returns the other bound.
C3_ClampInRange ==
    RoughNonMilling =>
        /\ rows[1].da = da0
        /\ op_area_volume(rows[1].operation, lw, da0, rows[1].db)
              = [Am |-> rows[1].Am, Vm |-> rows[1].vm]
        /\ RLe(dbf, da0) => ClampLaw(db_r_entered, rows[1].db)
        /\ RLt(da0, dbf) =>
              /\ rows[1].db = (IF RLt(db_r_entered, dbf) THEN dbf ELSE da0)
              /\ clamp_db_rough(rows[1].db, dbf, da0)
                    = (IF rows[1].db = dbf THEN da0 ELSE dbf)

\* C3 witness: an entered value above da0 was clamped down to it.
C3_Witness ==
    /\ RoughNonMilling
    /\ RLt(dbf, da0) /\ RLt(da0, db_r_entered)
    /\ rows[1].db = da0

Returned == ret # NoRet /\ ~ret.raised
NInOpenUnit(n) == RLt(Zero, n) /\ RLt(n, One)
TravelOf(operation) ==
    IF operation \in {"turn/thread", "face/thread", "bore/drill/tap/ream", "cutoff"}
    THEN F(<<27, 5>>) ELSE F(Zero)

\* C4 as stated: whenever compute_times returns, tm_prime_s - tm_s is 5.4 for
\* the four travel operations and 0 for milling and other.
C4_TravelDifference_Any ==
    Returned => VSub(ret.tm_prime_s, ret.tm_s) = TravelOf(call.operation)

\* C4 amended: tm_prime_s is tm_s + 5.4 for the four travel operations and
\* tm_s for milling and other; the difference is 5.4 resp. 0 when tm_s is
\* finite, and when tm_s is NaN or infinite tm_prime_s is that same value.
C4_TravelDifference ==
    Returned =>
        /\ ret.tm_prime_s = VAdd(ret.tm_s, TravelOf(call.operation))
        /\ IsNum(ret.tm_s) => VSub(ret.tm_prime_s, ret.tm_s) = TravelOf(call.operation)
        /\ ~IsNum(ret.tm_s) =>
              /\ ret.tm_prime_s = ret.tm_s
              /\ IsNaN(VSub(ret.tm_prime_s, ret.tm_s))

\* C4 witness: a cutoff pass on the wear branch returned a finite time.
C4_Witness ==
    /\ Returned /\ call.operation = "cutoff"
    /\ ret.branch = "wear" /\ IsNum(ret.tm_s)
    /\ ret.tm_prime_s # ret.tm_s

\* t_mp and t_mc of the current call, for P_m > 0
CallTmp == RDiv(RMul(RMul(R(60), call.ps), call.Vm.r), call.Pm)
CallTmc == RDiv(RMul(R(60), call.Am.r), call.vf)
WearFormula(tmp, tmc, n) ==
    RMul(tmp, RAdd(One, RMul(RDiv(n, RSub(One, n)), RPow(RDiv(tmc, tmp), RInv(n)[1]))))
C5_Case == Returned /\ RSgn(call.Pm) > 0 /\ RSgn(call.vf) > 0 /\ NInOpenUnit(call.n_tool)

\* C5 as stated: with P_m > 0, V_f > 0 and 0 < n < 1, t_m is t_mc/(1-n) when
\* t_mp <= t_mc and t_mp*(1 + (n/(1-n))*(t_mc/t_mp)^(1/n)) otherwise (the
\* formula has no value at t_mp = 0, which is left out here).
C5_WearFormula_Any ==
    C5_Case =>
        IF RLe(CallTmp, CallTmc)
        THEN ret.tm_s = F(RDiv(CallTmc, RSub(One, call.n_tool)))
        ELSE CallTmp # Zero => ret.tm_s = F(WearFormula(CallTmp, CallTmc, call.n_tool))

\* C5 amended: as stated when t_mp <= t_mc or t_mp > 0; when t_mc < t_mp <= 0
\* the ratio is taken as infinite and t_m is -inf (t_mp < 0) or NaN (t_mp = 0).
\* The branch is decided by t_mp <= t_mc alone.
C5_WearFormula ==
    C5_Case =>
        /\ (ret.branch = "safe") = RLe(CallTmp, CallTmc)
        /\ RLe(CallTmp, CallTmc) =>
              ret.tm_s = F(RDiv(CallTmc, RSub(One, call.n_tool)))
        /\ (~RLe(CallTmp, CallTmc) /\ RSgn(CallTmp) > 0) =>
              ret.tm_s = F(WearFormula(CallTmp, CallTmc, call.n_tool))
        /\ (~RLe(CallTmp, CallTmc) /\ RSgn(CallTmp) <= 0) =>
              /\ ret.ratio = PInf
              /\ ret.tm_s = (IF RSgn(CallTmp) < 0 THEN NInf ELSE NaN)

\* C5 witness: the wear branch ran on a positive t_mp above a positive t_mc.
C5_Witness ==
    /\ C5_Case /\ ret.branch = "wear"
    /\ RSgn(CallTmc) > 0 /\ RLt(CallTmc, CallTmp)
    /\ IsNum(ret.tm_s)

\* C6: with P_m <= 0 (V_f > 0, 0 < n < 1) the call raises nothing, t_mp is NaN,
\* the first branch is not taken, the ratio is +inf and four values come back.
C6_NoPowerNoError ==
    (ret # NoRet /\ RSgn(call.Pm) <= 0 /\ RSgn(call.vf) > 0 /\ NInOpenUnit(call.n_tool)) =>
        /\ ~ret.raised
        /\ IsNaN(ret.tmp_s)
        /\ ret.branch = "wear"
        /\ ret.ratio = PInf
        /\ \A v \in {ret.tmc_s, ret.tmp_s, ret.tm_s, ret.tm_prime_s} : v # Unset
        /\ IsNum(ret.tmc_s)

\* C6 witness: a call with negative power returned.
C6_Witness ==
    /\ ret # NoRet /\ ~ret.raised
    /\ RSgn(call.Pm) < 0 /\ NInOpenUnit(call.n_tool)
    /\ IsNaN(ret.tmp_s)

\* C7: the n that main() hands to compute_times lies strictly between 0 and 1,
\* and a direct call with n = 0 or n = 1 raises on every input.
C7_DegenerateNFails ==
    /\ n_tool # None => NInOpenUnit(n_tool)
    /\ (ret # NoRet /\ call.n_tool \in {Zero, One}) => ret.raised

CostsKnown == pc \in {"write", "exit"} /\ rows # << >>

RECURSIVE SumTmPrime(_)
SumTmPrime(rows_) ==
    IF rows_ = << >> THEN F(Zero)
    ELSE VAdd(rows_[1].tm_prime_s, SumTmPrime(Tail(rows_)))

\* C8: once costs are computed, the non-productive seconds are
\* load_s + toolpos_s * k and the machining seconds are the sum of t_m' over
\* the k rows, k in {1, 2} being the number of passes run.
C8_SecondsPerPassRun ==
    CostsKnown =>
        LET k == Len(rows)
        IN  /\ k \in {1, 2}
            /\ k = (IF rough THEN 1 ELSE 0) + (IF finish THEN 1 ELSE 0)
            /\ nonprod_seconds = RAdd(load_s, RMul(toolpos_s, R(k)))
            /\ total_machining_seconds = SumTmPrime(rows)
            /\ nonprod_cost_per_part
                  = F(RDiv(RMul(hourly_rate, nonprod_seconds), R(3600)))
            /\ machining_cost_per_part
                  = VScale(RDiv(hourly_rate, R(3600)), total_machining_seconds)

\* C8 witness: costs were computed for a session that ran the finish pass only.
C8_Witness ==
    /\ CostsKnown /\ ~rough /\ finish
    /\ nonprod_seconds = RAdd(load_s, toolpos_s)
    /\ total_machining_seconds = tprime_f

\* C9: the total is the sum of the four components, the material cost is
\* cost_per_lb * density * (pi/4) * da0^2 * l_full whatever the part count, and
\* the setup cost is hourly_rate * setup_hr / num_parts.
C9_CostAdditivity ==
    CostsKnown =>
        /\ total_cost_per_part
              = VAdd(material_cost_per_part,
                     VAdd(setup_cost_per_part,
                          VAdd(nonprod_cost_per_part, machining_cost_per_part)))
        /\ material_cost_per_part
              = PiTimes(RMul(cost_per_lb,
                             RMul(density, RDiv(RMul(RMul(da0, da0), l_full), R(4)))))
        /\ setup_cost_per_part = F(RDiv(RMul(hourly_rate, setup_hr), num_parts))

\* C9 witness: costs of a two-pass session for a batch of four parts.
C9_Witness ==
    /\ CostsKnown /\ Len(rows) = 2 /\ num_parts = R(4)
    /\ IsNum(total_cost_per_part)
    /\ setup_cost_per_part # F(RMul(hourly_rate, setup_hr))

NoCosts == cost_per_lb = None /\ hourly_rate = None /\ num_parts = None
           /\ total_cost_per_part = Unset

\* C10: a session that declined both passes leaves by the early exit with no
\* cost input, no cost and the log untouched; and every step that changes the
\* log happens with at least one row, all three cost inputs accepted, and
\* appends (after the header, if any) Rough before Finish.
C10_EarlyExitAndWriteOrder ==
    [][ /\ (pc = "check" /\ ~rough /\ ~finish) =>
              (pc' = "exit" /\ NoCosts' /\ UNCHANGED fileVars)
        /\ (pc = "exit" /\ ~rough /\ ~finish) =>
              (NoCosts /\ UNCHANGED fileVars)
        /\ (csv' # csv \/ file_exists' # file_exists) =>
              /\ Len(rows) >= 1
              /\ cost_per_lb # None /\ hourly_rate # None /\ num_parts # None
              /\ total_cost_per_part # Unset
              /\ \E h \in {<< >>, << "Pass" >>} :
                 \E d \in {<< "Rough" >>, << "Finish" >>, << "Rough", "Finish" >>} :
                    /\ csv' = csv \o h \o d
                    /\ Len(d) = Len(rows)
                    /\ ("Rough" \in {d[i] : i \in 1..Len(d)}) = rough
                    /\ ("Finish" \in {d[i] : i \in 1..Len(d)}) = finish
      ]_vars

\* C10 witness: a session that declined both passes has left by the early
\* exit while the log of an earlier session is in place.
C10_Witness ==
    /\ pc = "exit" /\ ~rough /\ ~finish /\ rows = << >>
    /\ inv = 2 /\ file_exists /\ csv = << "Pass", "Rough", "Finish" >>
    /\ NoCosts

=============================================================================
